---- MODULE Spec2Model ----
(***************************************************************************)
(* FerriteTranslator, src/translate.rs: an interactive chat client.  main  *)
(* resolves the API key, seeds the conversation with four System messages, *)
(* snapshots them, and loops: read a line, dispatch on "exit" / "reset" /  *)
(* "v" / anything else, and for a user turn call ask, which pushes a User  *)
(* message and sends the whole history to the chat completion endpoint.    *)
(***************************************************************************)
EXTENDS Integers, Sequences, FiniteSets, TLC

VARIABLES
    args,           \* Args::parse(): [general, key, model]
    env,            \* the environment variable OPENAI_API_KEY (None = not set)
    pc,             \* position of main: "start", "prompt", "editor", "ask_v", "ask_line", "exited"
    key,            \* the key handed to set_key
    messages,       \* let mut messages
    initial_state,  \* let initial_state = messages.clone()
    model,          \* let model = args.model.unwrap().as_str()
    input,          \* the line Text::prompt returned
    editor_input,   \* the text Editor::prompt returned (the inner `input` of the "v" arm)
    inflight,       \* requests created and not yet resolved
    response,       \* what the last resolved create().await yielded
    stdout,         \* the last line printed with println!
    stderr,         \* the error main returned (printed by the runtime)
    exit_code,      \* the process's exit status (None while it runs)
    nreads,         \* number of lines read at the prompt
    nreq,           \* number of requests sent
    at_prompt,      \* history variable: messages when the current line was read
    turns           \* history variable: <<User message, answer>> of each successful turn since the last reset

vars == <<args, env, pc, key, messages, initial_state, model, input, editor_input,
          inflight, response, stdout, stderr, exit_code, nreads, nreq, at_prompt, turns>>

None == "None"

\* Bound: lines read at the prompt in one run.
MaxInputs == 3

----------------------------------------------------------------------------
\* Inputs

GeneralArgs == {None, "Translate into French."}
KeyArgs == {None, "sk-arg"}
EnvKeys == {None, "sk-env"}
ModelArgs == {"Gpt_3_5_Turbo", "Gpt_4"}

Lines == {"exit", "reset", "v", "konnichiwa", "EXIT"}
EditorTexts == {"ichi\nni", "exit"}

ChatCompletionMessage(role, content) == [role |-> role, content |-> content, name |-> None]

Choices == { <<ChatCompletionMessage("Assistant", " Hello.\n")>>,
             <<ChatCompletionMessage("Assistant", "One\nTwo"),
               ChatCompletionMessage("Assistant", " Hello.\n")>>,
             <<>> }

\* no create().await has resolved yet
NoResponse == [kind |-> "None", choices |-> <<>>]

Responses == { [kind |-> "Ok", choices |-> cs] : cs \in Choices }
             \cup { [kind |-> k, choices |-> <<>>] : k \in {"RequestError", "ApiError"} }

----------------------------------------------------------------------------
\* Pure helpers

as_str(m) ==
    CASE m = "Gpt_4" -> "gpt-4"
      [] m = "Gpt_4_0314" -> "gpt-4-0314"
      [] m = "Gpt_4_32k" -> "gpt-4-32k"
      [] m = "Gpt_4_32k_0314" -> "gpt-4-32k-0314"
      [] m = "Gpt_3_5_Turbo" -> "gpt-3.5-turbo"
      [] m = "Gpt_3_5_Turbo_0301" -> "gpt-3.5-turbo-0301"

DefaultGeneral == "Plase translate the following statement from Japanese to English. The answer should be only the English stentences."

seed(general) ==
    << ChatCompletionMessage("System", IF general = None THEN DefaultGeneral ELSE general),
       ChatCompletionMessage("System", "The user can reset the current state of the chat by inputting 'reset'."),
       ChatCompletionMessage("System", "The user can activate the editor by entering 'v', allowing them to input multiple lines of prompts."),
       ChatCompletionMessage("System", "To terminate, the user needs to input \"exit\".") >>

\* str::trim on the contents the endpoint returns here.
trim(s) ==
    CASE s = " Hello.\n" -> "Hello."
      [] OTHER -> s

\* match &input[..]
match_arm(line) ==
    CASE line = "exit" -> "exit"
      [] line = "reset" -> "reset"
      [] line = "v" -> "v"
      [] OTHER -> "_"

\* the context message of line 61 (its backquotes left out)
MissingKey == "You need to set API key to the OPENAI_API_KEY"
NoChoices == "Can't read ChatGPT output"

\* main returns Err(e): the runtime prints it and the process exits with status 1
Fail(e) ==
    /\ pc' = "exited"
    /\ stderr' = e
    /\ exit_code' = 1

----------------------------------------------------------------------------
Init ==
    /\ args \in [general : GeneralArgs, key : KeyArgs, model : ModelArgs]
    /\ env \in EnvKeys
    /\ pc = "start"
    /\ key = None
    /\ messages = <<>>
    /\ initial_state = <<>>
    /\ model = None
    /\ input = None
    /\ editor_input = None
    /\ inflight = <<>>
    /\ response = NoResponse
    /\ stdout = None
    /\ stderr = None
    /\ exit_code = None
    /\ nreads = 0
    /\ nreq = 0
    /\ at_prompt = <<>>
    /\ turns = <<>>

\* env::var("OPENAI_API_KEY").with_context(..)? is the argument of unwrap_or:
\* it is evaluated, and its error returned, before unwrap_or looks at args.key.
StartupFail ==
    /\ pc = "start"
    /\ env = None
    /\ Fail(MissingKey)
    /\ UNCHANGED <<args, env, key, messages, initial_state, model, input, editor_input,
                   inflight, response, stdout, nreads, nreq, at_prompt, turns>>

Startup ==
    /\ pc = "start"
    /\ env # None
    /\ key' = IF args.key # None THEN args.key ELSE env
    /\ messages' = seed(args.general)
    /\ initial_state' = messages'
    /\ model' = as_str(args.model)
    /\ pc' = "prompt"
    /\ UNCHANGED <<args, env, input, editor_input, inflight, response, stdout, stderr,
                   exit_code, nreads, nreq, at_prompt, turns>>

----------------------------------------------------------------------------
\* ask, up to the await

\* messages.push(ChatCompletionMessage { role: User, content: input, name: None })
push_user(msgs, text) == Append(msgs, ChatCompletionMessage("User", text))

\* Variant of payload: only the most recent messages are sent.
payload_window(msgs) ==
    IF Len(msgs) > 4 THEN SubSeq(msgs, Len(msgs) - 3, Len(msgs)) ELSE msgs

\* ChatCompletion::builder(model, messages.clone())
payload(msgs) == msgs

\* Variant of ask: the request is built before the User message is pushed.
ask_send_then_push(text, arm) ==
    /\ inflight' = Append(inflight, [model |-> model, messages |-> payload(messages)])
    /\ messages' = push_user(messages, text)
    /\ nreq' = nreq + 1
    /\ pc' = arm

\* Variant of ask: the request is spawned and main goes on to the next prompt.
ask_detached(text, arm) ==
    /\ messages' = push_user(messages, text)
    /\ inflight' = Append(inflight, [model |-> model, messages |-> payload(messages')])
    /\ nreq' = nreq + 1
    /\ pc' = "prompt"

\* ask(&mut messages, input, model) until create().await suspends main at `arm`
ask(text, arm) ==
    /\ messages' = push_user(messages, text)
    /\ inflight' = Append(inflight, [model |-> model, messages |-> payload(messages')])
    /\ nreq' = nreq + 1
    /\ pc' = arm

----------------------------------------------------------------------------
\* The loop: Text::new("").prompt()? and the match on the line

ReadLine(line) ==
    /\ pc = "prompt"
    /\ nreads < MaxInputs
    /\ nreads' = nreads + 1
    /\ input' = line
    /\ at_prompt' = messages

PromptErr ==
    /\ pc = "prompt"
    /\ Fail("InquireError")
    /\ UNCHANGED <<args, env, key, messages, initial_state, model, input, editor_input,
                   inflight, response, stdout, nreads, nreq, at_prompt, turns>>

\* Variant of PromptExit: no "exit" arm, the line is sent as a user turn.
PromptExit_AsLine ==
    /\ ReadLine("exit")
    /\ ask("exit", "ask_line")
    /\ UNCHANGED <<args, env, key, initial_state, model, editor_input,
                   response, stdout, stderr, exit_code, turns>>

PromptExit ==
    /\ ReadLine("exit")
    /\ match_arm("exit") = "exit"
    /\ stdout' = "Bye!"
    /\ pc' = "exited"
    /\ exit_code' = 0
    /\ UNCHANGED <<args, env, key, messages, initial_state, model, editor_input,
                   inflight, response, stderr, nreq, turns>>

\* Variant of PromptReset: the history is rebuilt from the built-in prompts.
PromptReset_Default ==
    /\ ReadLine("reset")
    /\ messages' = seed(None)
    /\ turns' = <<>>
    /\ UNCHANGED <<args, env, pc, key, initial_state, model, editor_input,
                   inflight, response, stdout, stderr, exit_code, nreq>>

\* messages = Vec::from(&initial_state[..])
PromptReset ==
    /\ ReadLine("reset")
    /\ match_arm("reset") = "reset"
    /\ messages' = initial_state
    /\ turns' = <<>>
    /\ UNCHANGED <<args, env, pc, key, initial_state, model, editor_input,
                   inflight, response, stdout, stderr, exit_code, nreq>>

PromptV ==
    /\ ReadLine("v")
    /\ match_arm("v") = "v"
    /\ pc' = "editor"
    /\ UNCHANGED <<args, env, key, messages, initial_state, model, editor_input,
                   inflight, response, stdout, stderr, exit_code, nreq, turns>>

PromptLine ==
    \E line \in Lines :
        /\ ReadLine(line)
        /\ match_arm(line) = "_"
        /\ ask(line, "ask_line")
        /\ UNCHANGED <<args, env, key, initial_state, model, editor_input,
                       response, stdout, stderr, exit_code, turns>>

\* Variant of EditorText: the editor's text goes through the match like a line.
EditorText_Dispatch ==
    \E text \in EditorTexts :
        /\ pc = "editor"
        /\ editor_input' = text
        /\ IF match_arm(text) = "exit"
             THEN /\ stdout' = "Bye!"
                  /\ pc' = "exited"
                  /\ exit_code' = 0
                  /\ UNCHANGED <<messages, inflight, nreq>>
             ELSE /\ ask(text, "ask_v")
                  /\ UNCHANGED <<stdout, exit_code>>
        /\ UNCHANGED <<args, env, key, initial_state, model, input,
                       response, stderr, nreads, at_prompt, turns>>

\* Editor::new("Prompt:").prompt()? in the "v" arm
EditorText ==
    \E text \in EditorTexts :
        /\ pc = "editor"
        /\ editor_input' = text
        /\ ask(text, "ask_v")
        /\ UNCHANGED <<args, env, key, initial_state, model, input,
                       response, stdout, stderr, exit_code, nreads, at_prompt, turns>>

EditorErr ==
    /\ pc = "editor"
    /\ Fail("InquireError")
    /\ UNCHANGED <<args, env, key, messages, initial_state, model, input, editor_input,
                   inflight, response, stdout, nreads, nreq, at_prompt, turns>>

----------------------------------------------------------------------------
\* ask, from the await on, and the rest of the arm that called it

Awaiting == pc \in {"ask_v", "ask_line"}

\* the request main is suspended on resolves with r
Resolve(r) ==
    /\ Awaiting
    /\ inflight # <<>>
    /\ inflight' = Tail(inflight)
    /\ response' = r

\* Variant of AskError: the error is reported and the loop goes on.
AskError_Resume ==
    \E r \in Responses :
        /\ r.kind # "Ok"
        /\ Resolve(r)
        /\ stderr' = r.kind
        /\ pc' = "prompt"
        /\ UNCHANGED <<args, env, key, messages, initial_state, model, input, editor_input,
                       stdout, exit_code, nreads, nreq, at_prompt, turns>>

\* .create().await?? : a transport error or an API error is returned to main
AskError ==
    \E r \in Responses :
        /\ r.kind # "Ok"
        /\ Resolve(r)
        /\ Fail(r.kind)
        /\ UNCHANGED <<args, env, key, messages, initial_state, model, input, editor_input,
                       stdout, nreads, nreq, at_prompt, turns>>

\* Variant of AskNoChoices: the User message of the failed turn is taken back.
AskNoChoices_Rollback ==
    \E r \in Responses :
        /\ r.kind = "Ok"
        /\ r.choices = <<>>
        /\ Resolve(r)
        /\ Fail(NoChoices)
        /\ messages' = SubSeq(messages, 1, Len(messages) - 1)
        /\ UNCHANGED <<args, env, key, initial_state, model, input, editor_input,
                       stdout, nreads, nreq, at_prompt, turns>>

\* .choices.first().with_context(|| "Can't read ChatGPT output")?
AskNoChoices ==
    \E r \in Responses :
        /\ r.kind = "Ok"
        /\ r.choices = <<>>
        /\ Resolve(r)
        /\ Fail(NoChoices)
        /\ UNCHANGED <<args, env, key, messages, initial_state, model, input, editor_input,
                       stdout, nreads, nreq, at_prompt, turns>>

\* Variant of print_and_push: the answer is printed and not kept.
print_no_push(answer) ==
    /\ stdout' = answer.role \o ": " \o trim(answer.content)
    /\ turns' = Append(turns, <<messages[Len(messages)], answer>>)
    /\ messages' = messages
    /\ pc' = "prompt"

\* println!("{:?}: {}", &answer.role, &answer.content.trim()); messages.push(answer);
print_and_push(answer) ==
    /\ stdout' = answer.role \o ": " \o trim(answer.content)
    /\ turns' = Append(turns, <<messages[Len(messages)], answer>>)
    /\ messages' = Append(messages, answer)
    /\ pc' = "prompt"

\* the "v" arm after ask returned Ok(answer)
AnswerV ==
    \E r \in Responses :
        /\ pc = "ask_v"
        /\ r.kind = "Ok"
        /\ r.choices # <<>>
        /\ Resolve(r)
        /\ print_and_push(r.choices[1])
        /\ UNCHANGED <<args, env, key, initial_state, model, input, editor_input,
                       stderr, exit_code, nreads, nreq, at_prompt>>

\* the default arm after ask returned Ok(answer)
AnswerLine ==
    \E r \in Responses :
        /\ pc = "ask_line"
        /\ r.kind = "Ok"
        /\ r.choices # <<>>
        /\ Resolve(r)
        /\ print_and_push(r.choices[1])
        /\ UNCHANGED <<args, env, key, initial_state, model, input, editor_input,
                       stderr, exit_code, nreads, nreq, at_prompt>>

----------------------------------------------------------------------------
Next ==
    \/ StartupFail
    \/ Startup
    \/ PromptErr
    \/ PromptExit
    \/ PromptReset
    \/ PromptV
    \/ PromptLine
    \/ EditorText
    \/ EditorErr
    \/ AskError
    \/ AskNoChoices
    \/ AnswerV
    \/ AnswerLine

Spec == Init /\ [][Next]_vars

----------------------------------------------------------------------------
\* Vocabulary of the properties

User(text) == [role |-> "User", content |-> text, name |-> None]

RECURSIVE Flatten(_)
Flatten(ts) ==
    IF ts = <<>> THEN <<>> ELSE <<ts[1][1], ts[1][2]>> \o Flatten(Tail(ts))

IsPrefix(a, b) == Len(a) <= Len(b) /\ SubSeq(b, 1, Len(a)) = a

\* this step reads a line at the prompt (the line is input')
LineRead == pc = "prompt" /\ nreads' = nreads + 1

\* this step takes the text the editor returned (the text is editor_input')
EditorRead == pc = "editor" /\ stderr' = None

\* this step resolves the pending request (the result is response')
Resolved == Awaiting /\ inflight' # inflight

\* the text of the user turn in progress
TurnText == IF input = "v" THEN editor_input ELSE input

IsFailure(r) == r.kind # "Ok" \/ r.choices = <<>>

\* what a line read at the prompt does to the history, and how many requests it sends
LineHistory(msgs, line) ==
    CASE line = "reset" -> initial_state
      [] line \in {"exit", "v"} -> msgs
      [] OTHER -> Append(msgs, User(line))

LineRequests(line) == IF line \in {"exit", "reset", "v"} THEN 0 ELSE 1

----------------------------------------------------------------------------
\* C1: whenever "reset" is read, the history becomes exactly the four System
\* messages snapshotted at startup, the first carrying the --general text when
\* one was given, whatever turns and resets came before; no request is sent.
C1_ResetRestoresSeed ==
    [][(LineRead /\ input' = "reset") =>
          /\ messages' = initial_state
          /\ Len(messages') = 4
          /\ \A i \in 1..4 : messages'[i].role = "System"
          /\ messages'[1].content =
                 (IF args.general = None THEN DefaultGeneral ELSE args.general)
          /\ nreq' = nreq
          /\ inflight' = inflight
          /\ pc' = "prompt"]_vars

C1_Witness ==
    /\ pc = "prompt" /\ input = "reset" /\ nreads = 3 /\ nreq = 2
    /\ args.general # None
    /\ Len(messages) = 4 /\ messages[1].content = args.general

\* C2 (as stated): after a response with zero choices the process has reported
\* an error and the history is what it was when the turn began, the User
\* message of the turn not appended.
C2_HistoryUntouched ==
    (response.kind = "Ok" /\ response.choices = <<>>) =>
        /\ pc = "exited" /\ exit_code = 1 /\ stderr = NoChoices
        /\ messages = at_prompt

\* C2 (amended): after a response with zero choices the process has reported
\* the error and exited with status 1, no answer was appended, and the history
\* is the history the turn began with plus the User message of that turn.
C2_OnlyUserMessageAdded ==
    (response.kind = "Ok" /\ response.choices = <<>>) =>
        /\ pc = "exited" /\ exit_code = 1 /\ stderr = NoChoices
        /\ messages = Append(at_prompt, User(TurnText))

C2_Witness ==
    /\ response.kind = "Ok" /\ response.choices = <<>>
    /\ pc = "exited" /\ nreq = 2 /\ Len(at_prompt) = 6 /\ Len(messages) = 7

\* C3: the credential is the --key value when given and OPENAI_API_KEY
\* otherwise; startup fails exactly when neither is available, and in every
\* other case the loop is entered.
C3_KeyFallback ==
    pc # "start" =>
        /\ (stderr = MissingKey) <=> (args.key = None /\ env = None)
        /\ (stderr = MissingKey) => (pc = "exited" /\ exit_code = 1 /\ nreads = 0)
        /\ (stderr # MissingKey) =>
               key = (IF args.key # None THEN args.key ELSE env)

\* C4: whenever "exit" is read at the prompt, as the first input or a later
\* one and whatever the flags are, the process prints "Bye!" and terminates
\* with status 0, and sends no request.
C4_ExitSucceeds ==
    [][(LineRead /\ input' = "exit") =>
          /\ pc' = "exited"
          /\ exit_code' = 0
          /\ stdout' = "Bye!"
          /\ stderr' = None
          /\ nreq' = nreq
          /\ inflight' = <<>>
          /\ messages' = messages]_vars

C4_Witness ==
    /\ pc = "exited" /\ exit_code = 0 /\ stdout = "Bye!"
    /\ input = "exit" /\ nreads = 1 /\ nreq = 0
    /\ args.general # None /\ args.key # None /\ args.model = "Gpt_4"

\* C5: a line that is none of "exit", "reset", "v" is appended as exactly one
\* User message with that line as content, and the request of the turn, sent
\* in the same step, already carries it; a command line appends nothing.
C5_LineBecomesUserMessage ==
    [][LineRead =>
        /\ messages' = LineHistory(messages, input')
        /\ nreq' = nreq + LineRequests(input')
        /\
          IF input' \in {"exit", "reset", "v"}
            THEN /\ nreq' = nreq
                 /\ inflight' = inflight
                 /\ messages' = (IF input' = "reset" THEN initial_state ELSE messages)
            ELSE /\ messages' = Append(messages, User(input'))
                 /\ nreq' = nreq + 1
                 /\ inflight' # <<>>
                 /\ inflight'[Len(inflight')].messages = messages']_vars

C5_Witness ==
    /\ pc = "ask_line" /\ input = "EXIT" /\ nreq = 2
    /\ messages[Len(messages)] = User("EXIT")

\* C6: every request carries the whole history as it is when the request is
\* sent, in order and untruncated: the seed, the User message and answer of
\* each turn since the last reset, and last the User message of this turn.
C6_PayloadIsFullHistory ==
    [][(nreq' # nreq) =>
          /\ nreq' = nreq + 1
          /\ inflight' = <<[model |-> as_str(args.model), messages |-> messages']>>
          /\ messages' = initial_state \o Flatten(turns) \o
                             <<User(IF input' = "v" THEN editor_input' ELSE input')>>]_vars

C6_Witness ==
    /\ Awaiting /\ nreq = 3 /\ Len(turns) = 2
    /\ Len(inflight) = 1 /\ Len(inflight[1].messages) = 9

\* C7: a failed request (an error, or a response without choices) ends the
\* process with status 1 and an error; nothing is sent again, and once the
\* process has exited no step follows: no input is read, no request is sent.
C7_FailureIsFatal ==
    [][/\ pc # "exited"
       /\ (Resolved /\ IsFailure(response')) =>
              /\ pc' = "exited"
              /\ exit_code' = 1
              /\ stderr' # None
              /\ nreq' = nreq
              /\ nreads' = nreads
              /\ inflight' = <<>>]_vars

C7_Witness ==
    /\ pc = "exited" /\ exit_code = 1
    /\ response.kind = "RequestError" /\ nreq = 2 /\ inflight = <<>>

\* C8: at most one request is in flight; a line or an editor text is read only
\* when none is; a pending request goes away only by being resolved, in a step
\* that reads no input.
C8_OneRequestNoReadWhilePending ==
    [][/\ Len(inflight') <= 1
       /\ (LineRead \/ pc = "editor") => inflight = <<>>
       /\ (inflight # <<>> /\ inflight' # inflight) =>
              /\ Awaiting
              /\ inflight' = Tail(inflight)
              /\ response' \in Responses
              /\ nreads' = nreads
              /\ input' = input]_vars

C8_Witness ==
    /\ pc = "ask_line" /\ Len(inflight) = 1 /\ nreq = 2 /\ nreads = 2

\* C9: at the prompt the history is the four seed messages followed by the
\* User message and the answer of each successful turn since the last reset,
\* in order, so its length is 4 + 2k; a step that is not a reset keeps the
\* entries it finds, unchanged and in place.
HistoryAtPrompt ==
    /\ Len(initial_state) = 4
    /\ \A i \in 1..4 : initial_state[i].role = "System"
    /\ messages = initial_state \o Flatten(turns)
    /\ Len(messages) = 4 + 2 * Len(turns)
    /\ \A k \in 1..Len(turns) :
           /\ messages[3 + 2 * k].role = "User"
           /\ messages[4 + 2 * k] = turns[k][2]

C9_SeedThenTurns ==
    [][/\ (pc' = "prompt") => HistoryAtPrompt'
       /\ ~(LineRead /\ input' = "reset") => IsPrefix(messages, messages')
       /\ (Resolved /\ pc' = "prompt") =>
              /\ Len(turns') = Len(turns) + 1
              /\ turns'[Len(turns')] =
                     <<User(TurnText), response'.choices[1]>>]_vars

C9_Witness ==
    /\ pc = "prompt" /\ nreads = 3 /\ nreq = 2 /\ Len(turns) = 2
    /\ Len(messages) = 8 /\ args.general # None

\* C10 (as stated): for every text the editor returns, the turn does to the
\* history and to the requests what a line read at the prompt with that text
\* does.
C10_EditorSameAsLine ==
    [][EditorRead =>
          /\ messages' = LineHistory(messages, editor_input')
          /\ nreq' = nreq + LineRequests(editor_input')]_vars

\* C10 (amended): reading "v" adds no message; every text the editor returns,
\* a command word included, becomes exactly one User message followed by one
\* request carrying the history, and the first choice of the response is
\* appended in the "v" arm as in the default arm.  That is what a line with
\* the same text does unless the text is "exit", "reset" or "v".
C10_EditorTextIsUserTurn ==
    [][/\ (LineRead /\ input' = "v") =>
              (messages' = messages /\ nreq' = nreq /\ pc' = "editor")
       /\ EditorRead =>
              /\ messages' = Append(messages, User(editor_input'))
              /\ nreq' = nreq + 1
              /\ inflight' = <<[model |-> model, messages |-> messages']>>
              /\ (editor_input' \notin {"exit", "reset", "v"} =>
                      /\ messages' = LineHistory(messages, editor_input')
                      /\ nreq' = nreq + LineRequests(editor_input'))
       /\ (Resolved /\ ~IsFailure(response')) =>
              /\ messages' = Append(messages, response'.choices[1])
              /\ pc' = "prompt"]_vars

C10_Witness ==
    /\ pc = "prompt" /\ input = "v" /\ editor_input = "exit"
    /\ Len(messages) = 6 /\ messages[5] = User("exit")

====
